---- MODULE Spec2Model ----
(***************************************************************************)
(* Venus-Tracking: the observation pipeline.                               *)
(*   - SolarSystemTracker  (src/src/position_tracking/solar_system_tracker.py) *)
(*       the single-slot cache of calculate_all_positions and the          *)
(*       real-time loop track_real_time                                    *)
(*   - DataLogger          (src/src/data_logging/logger.py)                *)
(*       buffer, baseline, the tabular (.csv) and structured (.json) files *)
(*   - VenusApp            (src/venus_app.py) the tick callback            *)
(*                                                                         *)
(* Time is in whole abstract units (the code uses datetime / seconds).     *)
(* Python's None is the empty tuple <<>>, a present value v is <<v>>.      *)
(***************************************************************************)
EXTENDS Integers, Sequences, FiniteSets, TLC

\* ---------------------------------------------------------------- bounds
MaxTime == 6
MaxInterval == 3
MaxCalls == 4
MaxOps == 4
MaxBaseline == 1
MaxDuration == 5
MaxRuns == 2
MaxChanges == 1

\* ---------------------------------------------------------------- options
None == <<>>
Some(v) == <<v>>
IsNone(x) == x = <<>>
Val(x) == x[1]

Times == 0..MaxTime
Intervals == 1..MaxInterval

VARIABLES
    \* SolarSystemTracker
    tracking_interval,       \* config['tracking_interval']
    last_calculation,        \* None or the cached Snapshot
    last_calculation_time,   \* None or the instant of the cached Snapshot
    calls,                   \* number of calculate_all_positions calls made
    oracle_runs,             \* number of times the multi-body oracle computation ran
    last_call,               \* None or a record of the last calculate_all_positions call
    \* DataLogger and the files it works on
    logger,                  \* None (not constructed) or [data, existing_data]
    csv_file,                \* the file at output_file (a path containing ".csv")
    json_file,               \* the file at json_output_file, a different file
    export_file,             \* the file at an explicit export output_path
    session,                 \* history of the current DataLogger instance
    last_op,                 \* None or a record of the last DataLogger operation
    \* track_real_time and the wall clock
    now,                     \* datetime.utcnow()
    pc,                      \* where track_real_time is
    atmospheric_model,       \* VenusApp.atmospheric_model is set (the model is enabled)
    end_time,                \* None or the end-time bound
    current_time,            \* None or the instant captured at the top of the loop
    sleep_until,             \* None or the instant time.sleep is due to return
    sched,                   \* history of the run: its start, its ticks, their deadlines
    \* AtmosphericModel
    estimate,                \* None or the last _generate_notes call: its inputs and notes
    composition,             \* self.composition: the table, in the dict's order
    atmosphere_data,         \* None or the record the last calculate_parameters returned
    \* track_over_time
    replay                   \* None or the replay in progress: its bounds and position

trackerVars == <<tracking_interval, last_calculation, last_calculation_time,
                 calls, oracle_runs, last_call>>
loggerVars == <<logger, csv_file, json_file, export_file, session, last_op>>

schedVars == <<now, pc, atmospheric_model, end_time, current_time, sleep_until, sched>>

modelVars == <<estimate, composition, atmosphere_data>>

replayVars == <<replay>>

vars == <<trackerVars, loggerVars, schedVars, modelVars, replayVars>>

\* ---------------------------------------------------------------- Orchestrator
\* A position record is given by the set of its fields, a nested field by its path.
\* solar_system_tracker.py:53-64, the record calculate_body_position returns (the
\* elongation of the Sun is 0, line 51)
BodyPosition(body_name) ==
    {"name", "altitude", "azimuth", "distance.au", "distance.km", "ra", "dec",
     "elongation"}

\* solar_system_tracker.py:16-27, the registry self.planets
Planets == {"sun", "mercury", "venus", "earth", "mars", "jupiter", "saturn", "uranus",
            "neptune"}

\* solar_system_tracker.py:94-131: the records of calculate_all_planets_positions;
\* elongation is added for every planet but the Sun (line 111), and for the Moon
calculate_all_planets_positions ==
    [body \in (Planets \ {"earth"}) \cup {"moon"} |->
        {"altitude", "azimuth", "distance.au", "distance.km", "ra", "dec"}
        \cup (IF body # "sun" THEN {"elongation"} ELSE {})]

\* solar_system_tracker.py:186-204, the result of a computation, with
\* config['calculate_all_planets'] at its default True.  The oracle is deterministic:
\* the values of the Snapshot of an instant are a function of the instant, so they are
\* given by its timestamp.  venus_atmosphere is the key VenusApp attaches
\* (venus_app.py:83): None while the key is absent, else the instant of the Venus
\* position the attached record was estimated from.
Snapshot(t) ==
    [timestamp |-> t,
     celestial_bodies |-> [body \in {"venus", "sun", "moon"} |-> BodyPosition(body)],
     all_planets |-> calculate_all_planets_positions,
     venus_atmosphere |-> None]

\* the cache-hit rule with the instant of the cache itself left out
CacheFreshLaterOnly(target_time) ==
    /\ ~IsNone(last_calculation_time)
    /\ target_time - Val(last_calculation_time) > 0
    /\ target_time - Val(last_calculation_time) < tracking_interval

\* the cache-hit rule with the boundary t2 - t1 = interval taken as fresh
CacheFreshInclusive(target_time) ==
    /\ ~IsNone(last_calculation_time)
    /\ target_time - Val(last_calculation_time) <= tracking_interval

\* the cache-hit rule on the distance between the two instants, whatever their order
CacheFreshEitherSide(target_time) ==
    /\ ~IsNone(last_calculation_time)
    /\ target_time - Val(last_calculation_time) < tracking_interval
    /\ Val(last_calculation_time) - target_time < tracking_interval

\* solar_system_tracker.py:182-183, the staleness test of the cache
CacheFresh(target_time) ==
    /\ ~IsNone(last_calculation_time)
    /\ target_time - Val(last_calculation_time) < tracking_interval

\* what the ephemeris computations of one call do (solar_system_tracker.py:186-203):
\* "ok", or "fail": one of them raises (an unknown body at line 45, a Skyfield error)
OracleOutcomes == {"ok", "fail"}

\* the cache slot written before the computations are known to succeed
calculate_all_positions_cache_first(target_time, oracle) ==
    /\ calls' = calls + 1
    /\ IF CacheFresh(target_time)
       THEN /\ last_call' = Some([target_time |-> target_time, hit |-> TRUE,
                                  raised |-> FALSE,
                                  cached_time |-> last_calculation_time,
                                  returned |-> last_calculation])
            /\ UNCHANGED <<last_calculation, last_calculation_time, oracle_runs>>
       ELSE /\ oracle_runs' = oracle_runs + 1
            /\ last_calculation_time' = Some(target_time)
            /\ last_calculation' = IF oracle = "ok" THEN Some(Snapshot(target_time))
                                   ELSE last_calculation
            /\ last_call' = Some([target_time |-> target_time, hit |-> FALSE,
                                  raised |-> oracle # "ok",
                                  cached_time |-> last_calculation_time,
                                  returned |-> IF oracle = "ok"
                                               THEN Some(Snapshot(target_time))
                                               ELSE None])
    /\ UNCHANGED tracking_interval

\* solar_system_tracker.py:181-209; unchanged lists what the caller leaves alone.
\* The cache is assigned at lines 206-207, after every computation has returned.
calculate_all_positions(target_time, oracle) ==
    /\ calls' = calls + 1
    /\ IF CacheFresh(target_time)
       THEN /\ last_call' = Some([target_time |-> target_time, hit |-> TRUE,
                                  raised |-> FALSE,
                                  cached_time |-> last_calculation_time,
                                  returned |-> last_calculation])
            /\ UNCHANGED <<last_calculation, last_calculation_time, oracle_runs>>
       ELSE IF oracle = "ok"
       THEN /\ oracle_runs' = oracle_runs + 1
            /\ last_calculation' = Some(Snapshot(target_time))
            /\ last_calculation_time' = Some(target_time)
            /\ last_call' = Some([target_time |-> target_time, hit |-> FALSE,
                                  raised |-> FALSE,
                                  cached_time |-> last_calculation_time,
                                  returned |-> Some(Snapshot(target_time))])
       ELSE /\ oracle_runs' = oracle_runs + 1
            /\ last_call' = Some([target_time |-> target_time, hit |-> FALSE,
                                  raised |-> TRUE,
                                  cached_time |-> last_calculation_time,
                                  returned |-> None])
            /\ UNCHANGED <<last_calculation, last_calculation_time>>
    /\ UNCHANGED tracking_interval

Calculate ==
    /\ calls < MaxCalls
    /\ \E t \in Times, oracle \in OracleOutcomes : calculate_all_positions(t, oracle)
    /\ UNCHANGED <<loggerVars, schedVars, modelVars, replayVars>>

\* ---------------------------------------------------------------- DataLogger
\* A file is [kind, header, rows].  Tabular file: kind "absent", "empty" (size 0),
\* "corrupt" (pd.read_csv raises) or "csv" (header = column names, rows = text rows
\* [timestamp, cells], cells the columns whose text is not empty).  Structured file:
\* "absent", "corrupt" (json.load raises, an empty file included), "entries" (the
\* document {"entries": rows}, rows the nested records), "records" (a top-level list
\* of flat records, what DataFrame.to_json(orient='records') writes) or "other"
\* (valid JSON without an entries list).
Absent == [kind |-> "absent", header |-> {}, rows |-> <<>>]

\* logger.py:23-35, the keys every entry has
PositionKeys == {"timestamp", "location_name", "observer_latitude", "observer_longitude",
                 "altitude", "azimuth", "distance_au", "distance_km", "ra", "dec",
                 "elongation"}
\* logger.py:26-27: position.get() of keys a body position does not have is None
NullPositionKeys == {"observer_latitude", "observer_longitude"}

\* model.py:85-124, the top-level keys of AtmosphericModel.calculate_parameters that
\* log_entry looks at
FullAtmosphere == {"cloud_top_temperature", "surface_temperature",
                   "surface_light_intensity", "main_compounds", "phase", "notes"}
\* main.py:53-59, the legacy record: of its keys log_entry reads phase and notes
BasicAtmosphere == {"phase", "notes"}
\* the atmosphere argument of log_entry: None or a record, given by its keys
Atmospheres == {None, Some(FullAtmosphere), Some(BasicAtmosphere)}

\* logger.py:37-72, the columns each atmosphere key contributes
AtmosphereColumns(key) ==
    CASE key = "cloud_top_temperature" ->
            {"cloud_temp_k", "cloud_temp_c", "cloud_pressure_bar", "cloud_pressure_atm",
             "cloud_pressure_kpa"}
      [] key = "surface_temperature" ->
            {"surface_temp_k", "surface_temp_c", "ground_temp_k", "ground_temp_c",
             "surface_pressure_bar", "surface_pressure_atm", "surface_pressure_kpa",
             "wind_speed_m_s", "wind_speed_km_h"}
      [] key = "surface_light_intensity" -> {"light_intensity_lux"}
      [] key = "main_compounds" -> {"main_compounds"}
      [] key = "phase" -> {"phase"}
      [] key = "notes" -> {"notes"}
      [] OTHER -> {}

\* logger.py:23-72, the flattened entry: its keys, and those whose value is not None
Entry(time, atmosphere) ==
    LET keys == PositionKeys \cup
                (IF IsNone(atmosphere) \/ Val(atmosphere) = {} THEN {}
                 ELSE UNION {AtmosphereColumns(k) : k \in Val(atmosphere)})
    IN [timestamp |-> time, keys |-> keys, nonnull |-> keys \ NullPositionKeys]

\* logger.py:75-79, the nested record of the structured sink
RawEntry(time, atmosphere) ==
    [timestamp |-> time, position |-> "venus", atmosphere |-> atmosphere]

\* the columns taken from the first entry of the buffer alone
DataFrameFirstKeys(data) ==
    [columns |-> IF data = <<>> THEN {} ELSE data[1].keys,
     rows |-> [i \in DOMAIN data |->
                 [timestamp |-> data[i].timestamp,
                  filled |-> data[i].nonnull \cap data[1].keys]]]

\* pd.DataFrame(self.data) (logger.py:84, 119): columns are the union of the entries'
\* keys, a row holds NaN where its entry has no key or the value None
DataFrame(data) ==
    [columns |-> UNION {data[i].keys : i \in DOMAIN data},
     rows |-> [i \in DOMAIN data |->
                 [timestamp |-> data[i].timestamp, filled |-> data[i].nonnull]]]

\* pd.concat([a, b], ignore_index=True) (logger.py:87, 122)
Concat(a, b) == [columns |-> a.columns \cup b.columns, rows |-> a.rows \o b.rows]

\* the frame of the buffer alone, the baseline forgotten
FrameBufferOnly(existing_data, data) ==
    [columns |-> UNION {data[i].keys : i \in DOMAIN data},
     rows |-> [i \in DOMAIN data |->
                 [timestamp |-> data[i].timestamp, filled |-> data[i].nonnull]]]

\* logger.py:84-87 and 119-122: the frame of baseline + buffer
Frame(existing_data, data) ==
    IF IsNone(existing_data) THEN DataFrame(data)
    ELSE Concat(Val(existing_data), DataFrame(data))

\* the tabular file rewritten with the last row of the frame alone
to_csv_last_row(df) ==
    [kind |-> "csv", header |-> df.columns,
     rows |-> IF df.rows = <<>> THEN <<>>
              ELSE <<[timestamp |-> df.rows[Len(df.rows)].timestamp,
                      cells |-> df.rows[Len(df.rows)].filled]>>]

\* df.to_csv(path, index=False) (logger.py:88, 126): NaN is written as empty text
to_csv(df) ==
    [kind |-> "csv", header |-> df.columns,
     rows |-> [i \in DOMAIN df.rows |->
                 [timestamp |-> df.rows[i].timestamp, cells |-> df.rows[i].filled]]]

\* the parse that loses the first row of the file
read_csv_skip_first(file) ==
    IF file.kind = "csv"
    THEN Some([columns |-> file.header,
               rows |-> [i \in 1..(Len(file.rows) - 1) |->
                           [timestamp |-> file.rows[i + 1].timestamp,
                            filled |-> file.rows[i + 1].cells]]])
    ELSE None

\* pd.read_csv(output_file) (logger.py:14): empty text is read as NaN; None when it raises
read_csv(file) ==
    IF file.kind = "csv"
    THEN Some([columns |-> file.header,
               rows |-> [i \in DOMAIN file.rows |->
                           [timestamp |-> file.rows[i].timestamp,
                            filled |-> file.rows[i].cells]]])
    ELSE None

\* df.to_json(path, orient='records', indent=2) (logger.py:130): a list of flat records
to_json(df) ==
    [kind |-> "records", header |-> df.columns,
     rows |-> [i \in DOMAIN df.rows |->
                 [timestamp |-> df.rows[i].timestamp, cells |-> df.rows[i].filled]]]

\* logger.py:12-20: the baseline DataLogger.__init__ loads
LoadExisting(file) ==
    IF file.kind \in {"absent", "empty"} THEN None ELSE read_csv(file)

\* the structured file rewritten with the new record alone
write_to_json_overwrite(file, entry, io) ==
    IF io # "ok" THEN file
    ELSE [kind |-> "entries", header |-> {}, rows |-> <<entry>>]

\* logger.py:91-112.  io is what the file system does: "ok", or "fail" (an OSError
\* before anything is written; every Exception is caught and printed).
write_to_json(file, entry, io) ==
    IF io # "ok" THEN file
    ELSE IF file.kind = "absent"
         THEN [kind |-> "entries", header |-> {}, rows |-> <<entry>>]
    ELSE IF file.kind = "entries"
         THEN [file EXCEPT !.rows = Append(file.rows, entry)]
    ELSE IF file.kind = "corrupt"
         THEN [kind |-> "entries", header |-> {}, rows |-> <<entry>>]
    ELSE file   \* data['entries'] raises TypeError / KeyError, caught at line 111

\* logger.py:83-89.  io "ok", or "fail": to_csv raises (OSError) and the file is as before
write_to_file(file, existing_data, data, io) ==
    IF io = "ok" THEN to_csv(Frame(existing_data, data)) ELSE file

IoOutcomes == {"ok", "fail"}

OpCount == IF IsNone(last_op) THEN 0 ELSE Val(last_op).n

\* logger.py:6-20, DataLogger(output_file): a new session on the same files
Open ==
    /\ OpCount < MaxOps
    /\ logger' = Some([data |-> <<>>, existing_data |-> LoadExisting(csv_file)])
    /\ session' = Some([csv_at_open |-> csv_file, json_at_open |-> json_file,
                        io_failed |-> FALSE, exported |-> FALSE,
                        logged |-> <<>>, rewrites |-> <<>>])
    /\ last_op' = Some([n |-> OpCount + 1, op |-> "open", format |-> "", path |-> None,
                        raised |-> FALSE, returned |-> None])
    /\ UNCHANGED <<csv_file, json_file, export_file>>
    /\ UNCHANGED <<trackerVars, schedVars, modelVars, replayVars>>

\* log_entry with the structured write made whether or not the tabular rewrite raised
log_entry_json_always(time, atmosphere, csv_io, json_io) ==
    LET data1 == Append(Val(logger).data, Entry(time, atmosphere))
        csv1 == write_to_file(csv_file, Val(logger).existing_data, data1, csv_io)
    IN /\ ~IsNone(logger)
       /\ logger' = Some([Val(logger) EXCEPT !.data = data1])
       /\ csv_file' = csv1
       /\ json_file' = write_to_json(json_file, RawEntry(time, atmosphere), json_io)
       /\ session' = Some([Val(session) EXCEPT
                             !.logged = Append(@, time),
                             !.io_failed = @ \/ csv_io # "ok" \/ json_io # "ok",
                             !.rewrites = IF csv_io = "ok" THEN Append(@, csv1.header)
                                          ELSE @])
       /\ last_op' = Some([n |-> OpCount + 1, op |-> "log_entry", format |-> "",
                           path |-> None, raised |-> csv_io # "ok", returned |-> None])
       /\ UNCHANGED export_file

\* logger.py:22-81, log_entry(time, position, atmosphere) as one call
log_entry(time, atmosphere, csv_io, json_io) ==
    LET data1 == Append(Val(logger).data, Entry(time, atmosphere))
        csv1 == write_to_file(csv_file, Val(logger).existing_data, data1, csv_io)
    IN /\ ~IsNone(logger)
       /\ logger' = Some([Val(logger) EXCEPT !.data = data1])
       /\ csv_file' = csv1
       /\ json_file' = IF csv_io = "ok"
                       THEN write_to_json(json_file, RawEntry(time, atmosphere), json_io)
                       ELSE json_file
       /\ session' = Some([Val(session) EXCEPT
                             !.logged = Append(@, time),
                             !.io_failed = @ \/ csv_io # "ok" \/ json_io # "ok",
                             !.rewrites = IF csv_io = "ok" THEN Append(@, csv1.header)
                                          ELSE @])
       /\ last_op' = Some([n |-> OpCount + 1, op |-> "log_entry", format |-> "",
                           path |-> None, raised |-> csv_io # "ok", returned |-> None])
       /\ UNCHANGED export_file

\* the callers log at the instant of the call; instants increase from call to call
LogEntry ==
    /\ OpCount < MaxOps
    /\ \E atmosphere \in Atmospheres, csv_io \in IoOutcomes, json_io \in IoOutcomes :
          /\ (csv_io # "ok" => json_io = "ok")
          /\ log_entry(OpCount, atmosphere, csv_io, json_io)
    /\ UNCHANGED <<trackerVars, schedVars, modelVars, replayVars>>

Formats == {"csv", "json", "xml"}

\* every format taken as one that is written
SupportedFormatsAny == Formats

\* logger.py:124, 128: the formats export_data has a branch for
SupportedFormats == {"csv", "json"}
ExportPaths == {None, Some("custom")}

\* logger.py:114-134, export_data(format_type, output_path)
export_data(format_type, output_path) ==
    LET df == Frame(Val(logger).existing_data, Val(logger).data)
        empty == Val(logger).data = <<>>
        content == IF format_type = "csv" THEN to_csv(df) ELSE to_json(df)
        written == ~empty /\ format_type \in SupportedFormats
        default == IF format_type = "csv" THEN "output_file" ELSE "json_output_file"
        path == IF IsNone(output_path) THEN default ELSE Val(output_path)
    IN /\ ~IsNone(logger)
       /\ csv_file' = IF written /\ path = "output_file" THEN content ELSE csv_file
       /\ json_file' = IF written /\ path = "json_output_file" THEN content ELSE json_file
       /\ export_file' = IF written /\ path = "custom" THEN content ELSE export_file
       /\ session' = Some([Val(session) EXCEPT
                             !.exported = @ \/ written,
                             !.rewrites = IF written /\ format_type = "csv"
                                             /\ path = "output_file"
                                          THEN Append(@, content.header) ELSE @])
       /\ last_op' = Some([n |-> OpCount + 1, op |-> "export_data",
                           format |-> format_type, path |-> output_path,
                           raised |-> FALSE,
                           returned |-> IF written THEN Some(path) ELSE None])
       /\ UNCHANGED logger

ExportData ==
    /\ OpCount < MaxOps
    /\ \E format_type \in Formats, output_path \in ExportPaths :
          export_data(format_type, output_path)
    /\ UNCHANGED <<trackerVars, schedVars, modelVars, replayVars>>

\* the files a DataLogger can find at its paths
BaselineHeaders == {PositionKeys, Entry(0, Some(FullAtmosphere)).keys}
BaselineRows(header, b) ==
    [i \in 1..b |-> [timestamp |-> i - 1 - b, cells |-> header \ NullPositionKeys]]
InitialCsvFiles ==
    {Absent, [Absent EXCEPT !.kind = "empty"], [Absent EXCEPT !.kind = "corrupt"]}
    \cup {[kind |-> "csv", header |-> h, rows |-> BaselineRows(h, b)] :
            h \in BaselineHeaders, b \in 0..MaxBaseline}
InitialJsonFiles ==
    {Absent, [Absent EXCEPT !.kind = "corrupt"], [Absent EXCEPT !.kind = "other"]}
    \cup {[kind |-> "entries", header |-> {},
           rows |-> [i \in 1..b |-> RawEntry(i - 1 - b, Some(FullAtmosphere))]] :
            b \in 0..MaxBaseline}

\* ---------------------------------------------------------------- track_real_time
\* Positions of the loop (solar_system_tracker.py:221-244) and of the tick callback
\* (venus_app.py:196-231) with the log_entry it makes (logger.py:74-81):
\*   "loop"       line 223, about to capture current_time
\*   "calculate"  line 229, calculate_all_positions in flight
\*   "callback"   line 232 / venus_app.py:229, the callback in flight
\*   "write_csv"  logger.py:80, the entry is in the buffer
\*   "write_json" logger.py:81, the tabular file is rewritten
\*   "next"       line 235, about to compute the sleep
\*   "sleep"      line 239, in time.sleep
\* and "idle" before the call, "completed" (line 227), "interrupted" (line 242),
\* "failed" (an exception other than KeyboardInterrupt left the loop).
RunningPcs == {"loop", "calculate", "callback", "write_csv", "write_json", "next", "sleep"}

\* the interrupt handled at the inter-tick wait only
InterruptPointsSleepOnly == {"sleep"}

\* solar_system_tracker.py:221-241: the positions inside the try block, where a
\* KeyboardInterrupt is caught
InterruptPoints == RunningPcs

Durations == {None} \cup {Some(d) : d \in 0..MaxDuration}

\* solar_system_tracker.py:214: a duration is a bound only if it is truthy
EndTime(start_time, duration_seconds) ==
    IF ~IsNone(duration_seconds) /\ Val(duration_seconds) # 0
    THEN Some(start_time + Val(duration_seconds))
    ELSE None

\* the run taken as over at the bound itself
DurationCompletedAtBound(time) == ~IsNone(end_time) /\ time >= Val(end_time)

\* solar_system_tracker.py:225
DurationCompleted(time) == ~IsNone(end_time) /\ time > Val(end_time)

\* the deadline taken from the time the tick's work is finished
NextUpdateFromNow == now + tracking_interval

\* the deadline taken from the previous deadline: a fixed cadence that is caught up
NextUpdateFromDeadline ==
    IF sched.deadlines = <<>> THEN Val(sched.start_time) + tracking_interval
    ELSE sched.deadlines[Len(sched.deadlines)] + tracking_interval

\* solar_system_tracker.py:235
NextUpdate == Val(current_time) + tracking_interval

\* solar_system_tracker.py:211-219, track_real_time(duration_seconds, callback)
Start ==
    /\ pc = "idle"
    /\ \E duration_seconds \in Durations :
          /\ end_time' = EndTime(now, duration_seconds)
          /\ sched' = [sched EXCEPT !.start_time = Some(now),
                                    !.duration = duration_seconds]
    /\ pc' = "loop"
    /\ UNCHANGED <<now, atmospheric_model, current_time, sleep_until>>
    /\ UNCHANGED <<trackerVars, loggerVars, modelVars, replayVars>>

\* solar_system_tracker.py:223-227
LoopTop ==
    /\ pc = "loop"
    /\ current_time' = Some(now)
    /\ IF DurationCompleted(now)
       THEN pc' = "completed" /\ UNCHANGED sched
       ELSE pc' = "calculate" /\ sched' = [sched EXCEPT !.ticks = Append(@, now)]
    /\ UNCHANGED <<now, atmospheric_model, end_time, sleep_until>>
    /\ UNCHANGED <<trackerVars, loggerVars, modelVars, replayVars>>

\* solar_system_tracker.py:229: an exception of the oracle leaves the loop
TickCalculate ==
    /\ pc = "calculate"
    /\ \E oracle \in OracleOutcomes :
          /\ calculate_all_positions(Val(current_time), oracle)
          /\ pc' = IF CacheFresh(Val(current_time)) \/ oracle = "ok"
                   THEN "callback" ELSE "failed"
    /\ UNCHANGED <<now, atmospheric_model, end_time, current_time, sleep_until, sched>>
    /\ UNCHANGED <<loggerVars, modelVars, replayVars>>

\* venus_app.py:196-231 up to logger.py:74: the entry is estimated and put in the buffer
\* only if the atmospheric model is enabled
TickCallback ==
    /\ pc = "callback"
    /\ IF atmospheric_model /\ ~IsNone(logger)
       THEN /\ logger' = Some([Val(logger) EXCEPT
                    !.data = Append(@, Entry(Val(current_time), Some(FullAtmosphere)))])
            /\ last_op' = Some([n |-> OpCount + 1, op |-> "log_entry", format |-> "",
                                path |-> None, raised |-> FALSE, returned |-> None])
            /\ session' = Some([Val(session) EXCEPT
                                  !.logged = Append(@, Val(current_time))])
            /\ pc' = "write_csv"
       ELSE /\ pc' = "next"
            /\ UNCHANGED <<logger, last_op, session>>
    /\ UNCHANGED <<csv_file, json_file, export_file>>
    /\ UNCHANGED <<now, atmospheric_model, end_time, current_time, sleep_until, sched>>
    /\ UNCHANGED <<trackerVars, modelVars, replayVars>>

\* logger.py:80: a failure of the rewrite leaves log_entry, the callback and the loop
TickWriteCsv ==
    /\ pc = "write_csv"
    /\ \E csv_io \in IoOutcomes :
          LET csv1 == write_to_file(csv_file, Val(logger).existing_data,
                                    Val(logger).data, csv_io)
          IN /\ csv_file' = csv1
             /\ session' = Some([Val(session) EXCEPT
                                   !.io_failed = @ \/ csv_io # "ok",
                                   !.rewrites = IF csv_io = "ok" THEN Append(@, csv1.header)
                                                ELSE @])
             /\ last_op' = Some([Val(last_op) EXCEPT !.raised = csv_io # "ok"])
             /\ pc' = IF csv_io = "ok" THEN "write_json" ELSE "failed"
    /\ UNCHANGED <<logger, json_file, export_file>>
    /\ UNCHANGED <<now, atmospheric_model, end_time, current_time, sleep_until, sched>>
    /\ UNCHANGED <<trackerVars, modelVars, replayVars>>

\* logger.py:81
TickWriteJson ==
    /\ pc = "write_json"
    /\ \E json_io \in IoOutcomes :
          /\ json_file' = write_to_json(json_file,
                              RawEntry(Val(current_time), Some(FullAtmosphere)), json_io)
          /\ session' = Some([Val(session) EXCEPT !.io_failed = @ \/ json_io # "ok"])
    /\ pc' = "next"
    /\ UNCHANGED <<logger, csv_file, export_file, last_op>>
    /\ UNCHANGED <<now, atmospheric_model, end_time, current_time, sleep_until, sched>>
    /\ UNCHANGED <<trackerVars, modelVars, replayVars>>

\* solar_system_tracker.py:235-239
TickNext ==
    /\ pc = "next"
    /\ sched' = [sched EXCEPT !.deadlines = Append(@, NextUpdate)]
    /\ IF NextUpdate - now > 0
       THEN pc' = "sleep" /\ sleep_until' = Some(now + (NextUpdate - now))
       ELSE pc' = "loop" /\ UNCHANGED sleep_until
    /\ UNCHANGED <<now, atmospheric_model, end_time, current_time>>
    /\ UNCHANGED <<trackerVars, loggerVars, modelVars, replayVars>>

\* time.sleep returns once the interval has elapsed, not before
Wake ==
    /\ pc = "sleep"
    /\ now >= Val(sleep_until)
    /\ pc' = "loop"
    /\ UNCHANGED <<now, atmospheric_model, end_time, current_time, sleep_until, sched>>
    /\ UNCHANGED <<trackerVars, loggerVars, modelVars, replayVars>>

\* the clock advances while the loop runs; time that passes anywhere but in a sleep
\* that is not yet due is compute time or oversleep
ClockTick ==
    /\ pc \in RunningPcs
    /\ now < MaxTime
    /\ now' = now + 1
    /\ sched' = [sched EXCEPT
                   !.delayed = @ \/ ~(pc = "sleep" /\ now < Val(sleep_until))]
    /\ UNCHANGED <<pc, atmospheric_model, end_time, current_time, sleep_until>>
    /\ UNCHANGED <<trackerVars, loggerVars, modelVars, replayVars>>

\* solar_system_tracker.py:241-244: Ctrl-C raises KeyboardInterrupt in the main thread
\* wherever it is executing
KeyboardInterrupt ==
    /\ pc \in InterruptPoints
    /\ pc' = "interrupted"
    /\ sched' = [sched EXCEPT !.interrupted_at = pc]
    /\ UNCHANGED <<now, atmospheric_model, end_time, current_time, sleep_until>>
    /\ UNCHANGED <<trackerVars, loggerVars, modelVars, replayVars>>

\* venus_app.py:72-86, VenusApp.run_single_calculation(time) with the components
\* initialized.  results is the object calculate_all_positions returned, which is
\* the object the cache holds, on a hit and on a miss alike: line 83 writes
\* venus_atmosphere into it.  The estimate is made from the Venus position of that
\* Snapshot.  An exception of the oracle or of the tabular write leaves the call.
RunSingleCalculation ==
    /\ calls < MaxCalls
    /\ OpCount < MaxRuns
    /\ pc = "idle"
    /\ ~IsNone(logger)
    /\ \E time \in Times, oracle \in OracleOutcomes,
          csv_io \in IoOutcomes, json_io \in IoOutcomes :
          LET hit == CacheFresh(time)
              results == IF hit THEN Val(last_calculation) ELSE Snapshot(time)
          IN IF ~hit /\ oracle # "ok"
             THEN /\ csv_io = "ok" /\ json_io = "ok"
                  /\ calculate_all_positions(time, oracle)
                  /\ UNCHANGED loggerVars
             ELSE /\ calls' = calls + 1
                  /\ oracle = "ok"
                  /\ oracle_runs' = IF hit THEN oracle_runs ELSE oracle_runs + 1
                  /\ last_calculation_time' =
                        IF hit THEN last_calculation_time ELSE Some(time)
                  /\ last_call' = Some([target_time |-> time, hit |-> hit,
                                        raised |-> FALSE,
                                        cached_time |-> last_calculation_time,
                                        returned |-> Some(results)])
                  /\ UNCHANGED tracking_interval
                  /\ IF atmospheric_model
                     THEN /\ last_calculation' =
                               Some([results EXCEPT
                                       !.venus_atmosphere = Some(results.timestamp)])
                          /\ (csv_io # "ok" => json_io = "ok")
                          /\ log_entry(time, Some(FullAtmosphere), csv_io, json_io)
                     ELSE /\ csv_io = "ok" /\ json_io = "ok"
                          /\ last_calculation' = Some(results)
                          /\ UNCHANGED loggerVars
    /\ UNCHANGED <<schedVars, modelVars, replayVars>>

\* ---------------------------------------------------------------- track_over_time
\* SolarSystemTracker.track_over_time(start_time, duration_minutes, data_logger,
\* atmospheric_model), solar_system_tracker.py:246-259.  Durations are 60 *
\* duration_minutes in the unit of Times; the step of the loop is the tracker's
\* tracking_interval, the same number the cache's staleness test uses.
ReplayStarts == 0..MaxInterval
ReplayDurations == 0..MaxDuration

\* lines 248-250: end_time and current_time are set, nothing is computed yet
TrackOverTimeStart ==
    /\ IsNone(replay)
    /\ ~IsNone(logger)
    /\ \E start_time \in ReplayStarts, duration \in ReplayDurations :
          replay' = Some([start_time |-> start_time, duration |-> duration,
                          end_time |-> start_time + duration,
                          current_time |-> start_time, steps |-> <<>>,
                          state |-> "loop"])
    /\ UNCHANGED <<trackerVars, loggerVars, schedVars, modelVars>>

\* lines 252-259, one pass of the loop body: calculate_all_positions(current_time),
\* the estimate when a model was passed, log_entry, current_time += interval.  An
\* exception of the oracle or of the tabular write leaves track_over_time.
TrackOverTimeStep ==
    /\ ~IsNone(replay)
    /\ Val(replay).state = "loop"
    /\ Val(replay).current_time <= Val(replay).end_time
    /\ \E oracle \in OracleOutcomes, csv_io \in IoOutcomes, json_io \in IoOutcomes :
          LET time == Val(replay).current_time
              hit == CacheFresh(time)
              atmosphere == IF atmospheric_model THEN Some(FullAtmosphere) ELSE None
          IN /\ calculate_all_positions(time, oracle)
             /\ IF ~hit /\ oracle # "ok"
                THEN /\ csv_io = "ok" /\ json_io = "ok"
                     /\ replay' = Some([Val(replay) EXCEPT !.state = "raised"])
                     /\ UNCHANGED loggerVars
                ELSE /\ oracle = "ok"
                     /\ (csv_io # "ok" => json_io = "ok")
                     /\ log_entry(time, atmosphere, csv_io, json_io)
                     /\ replay' = Some([Val(replay) EXCEPT
                            !.steps = Append(@, [time |-> time, hit |-> hit]),
                            !.current_time = IF csv_io = "ok"
                                             THEN @ + tracking_interval ELSE @,
                            !.state = IF csv_io = "ok" THEN "loop" ELSE "raised"])
    /\ UNCHANGED <<schedVars, modelVars>>

\* line 252: the loop condition is false, track_over_time returns
TrackOverTimeReturn ==
    /\ ~IsNone(replay)
    /\ Val(replay).state = "loop"
    /\ Val(replay).current_time > Val(replay).end_time
    /\ replay' = Some([Val(replay) EXCEPT !.state = "returned"])
    /\ UNCHANGED <<trackerVars, loggerVars, schedVars, modelVars>>

\* what the caller did with the tracker before the replay: at most one
\* calculate_all_positions call
CalculateBefore ==
    /\ IsNone(replay)
    /\ calls = 0
    /\ Calculate

\* ---------------------------------------------------------------- AtmosphericModel
\* _generate_notes(temperature, phase, elongation), model.py:126-147.  elongation is in
\* degrees, temperature in kelvin, phase in hundredths (phase > 0.8 is phase > 80).
\* The notes string is given by the sequence of the sentences that "; ".join puts
\* together; the two surface sentences print fixed parameters of the model.
Elongations == {0, 9, 10, 90, 160, 161, 180}
Phases == {0, 19, 20, 50, 80, 81, 100}
Temperatures == {150, 159, 160, 190, 220, 221, 230}

\* model.py:129-132
ElongationNotes(elongation) ==
    IF elongation < 10 THEN <<"Venus near superior conjunction (behind the Sun)">>
    ELSE IF elongation > 160
         THEN <<"Venus near inferior conjunction (between Earth and Sun)">>
    ELSE <<>>

\* model.py:134-137
PhaseNotes(phase) ==
    IF phase > 80 THEN <<"Full Venus phase - mostly day side visible">>
    ELSE IF phase < 20 THEN <<"Crescent phase - mostly night side visible">>
    ELSE <<>>

\* model.py:139-142
TemperatureNotes(temperature) ==
    IF temperature > 220 THEN <<"Upper cloud temperature higher than average">>
    ELSE IF temperature < 160 THEN <<"Upper cloud temperature lower than average">>
    ELSE <<>>

\* model.py:144-145, appended on every call
SurfaceNotes == <<"Surface temperature", "Surface pressure">>

\* model.py:147
JoinNotes(notes) == IF notes # <<>> THEN notes ELSE <<"Standard conditions">>

\* the phase rule evaluated before the elongation rule
generate_notes_phase_first(temperature, phase, elongation) ==
    JoinNotes(PhaseNotes(phase) \o ElongationNotes(elongation)
              \o TemperatureNotes(temperature) \o SurfaceNotes)

\* model.py:126-147
generate_notes(temperature, phase, elongation) ==
    JoinNotes(ElongationNotes(elongation) \o PhaseNotes(phase)
              \o TemperatureNotes(temperature) \o SurfaceNotes)

\* one call of _generate_notes
GenerateNotes ==
    /\ \E temperature \in Temperatures, phase \in Phases, elongation \in Elongations :
          estimate' = Some([temperature |-> temperature, phase |-> phase,
                            elongation |-> elongation,
                            notes |-> generate_notes(temperature, phase, elongation)])
    /\ UNCHANGED <<composition, atmosphere_data>>
    /\ UNCHANGED <<trackerVars, loggerVars, schedVars, replayVars>>

\* model.py:6-15: the composition table of AtmosphericModel.__init__, in the order of
\* the dict, percentages in units of 0.0001 %
BuiltinComposition ==
    << [name |-> "CO2", percentage |-> 965000], [name |-> "N2", percentage |-> 35000],
       [name |-> "SO2", percentage |-> 150], [name |-> "Ar", percentage |-> 70],
       [name |-> "CO", percentage |-> 17], [name |-> "H2O", percentage |-> 20],
       [name |-> "He", percentage |-> 12], [name |-> "Ne", percentage |-> 7] >>

\* the position argument: elongations in degrees, every 15 degrees of [0, 180]
EstimateElongations == {15 * k : k \in 0..12}

\* np.cos(np.radians(e)) at the sampled elongations, in units of 1 / CosineUnit
CosineTable == <<10000, 9659, 8660, 7071, 5000, 2588, 0>>
CosineUnit == CosineTable[1]
Cosine(elongation) ==
    IF elongation <= 90 THEN CosineTable[(elongation \div 15) + 1]
    ELSE -CosineTable[((180 - elongation) \div 15) + 1]

\* a phase p is held as p * PhaseOne
PhaseOne == 2 * CosineUnit

\* the illuminated fraction taken as (1 - cos) / 2
phase_waxing(elongation) == CosineUnit - Cosine(elongation)

\* model.py:57, phase = (1 + np.cos(np.radians(elongation))) / 2
phase(elongation) == CosineUnit + Cosine(elongation)

\* model.py:60-61
cloud_top_temp_day == 230
cloud_top_temp_night == 150

\* the two baselines exchanged
cloud_top_temperature_swapped(ph) ==
    ph * cloud_top_temp_night + (PhaseOne - ph) * cloud_top_temp_day

\* model.py:62, in kelvin * PhaseOne
cloud_top_temperature(ph) ==
    ph * cloud_top_temp_day + (PhaseOne - ph) * cloud_top_temp_night

\* the index sorted() puts first: the highest percentage, the earliest such entry
FirstMax(items) ==
    CHOOSE i \in DOMAIN items :
        /\ \A j \in DOMAIN items : items[j].percentage <= items[i].percentage
        /\ \A j \in 1..(i - 1) : items[j].percentage < items[i].percentage

\* the highest percentage, the latest such entry
LastMax(items) ==
    CHOOSE i \in DOMAIN items :
        /\ \A j \in DOMAIN items : items[j].percentage <= items[i].percentage
        /\ \A j \in (i + 1)..Len(items) : items[j].percentage < items[i].percentage

Without(items, i) == SubSeq(items, 1, i - 1) \o SubSeq(items, i + 1, Len(items))

\* a descending sort that puts equal percentages in reverse table order
RECURSIVE sorted_reverse_unstable(_)
sorted_reverse_unstable(items) ==
    IF items = <<>> THEN <<>>
    ELSE <<items[LastMax(items)]>>
            \o sorted_reverse_unstable(Without(items, LastMax(items)))

\* sorted(items, key=lambda x: x[1], reverse=True): stable, equal keys keep their order
RECURSIVE sorted_reverse(_)
sorted_reverse(items) ==
    IF items = <<>> THEN <<>>
    ELSE <<items[FirstMax(items)]>> \o sorted_reverse(Without(items, FirstMax(items)))

Names(items) == [i \in DOMAIN items |-> items[i].name]

\* the top three taken from the unstable sort
main_compounds_unstable(table) == Names(SubSeq(sorted_reverse_unstable(table), 1, 3))

\* model.py:82-83
main_compounds(table) == Names(SubSeq(sorted_reverse(table), 1, 3))

\* model.py:52-124, calculate_parameters(time, position): the record returned.  time
\* and position['distance'] are read by nothing; the surface fields and the notes are
\* functions of the elongation, the phase and self.parameters, which no code assigns.
\* The record's 'composition' is self.composition itself (line 120), not a copy: it
\* is the variable composition, not a field of the record held here.
calculate_parameters(elongation) ==
    [elongation |-> elongation,
     phase |-> phase(elongation),
     cloud_top_temperature |-> cloud_top_temperature(phase(elongation)),
     main_compounds |-> main_compounds(composition)]

\* one call of calculate_parameters
CalculateParameters ==
    /\ \E elongation \in EstimateElongations :
          atmosphere_data' = Some(calculate_parameters(elongation))
    /\ UNCHANGED <<estimate, composition>>
    /\ UNCHANGED <<trackerVars, loggerVars, schedVars, replayVars>>

\* the entries of the table a consumer has changed
Changed(table) == {i \in DOMAIN table : table[i] # BuiltinComposition[i]}

\* the percentages a consumer writes: zero, or the percentage of another compound
WrittenPercentages ==
    {0} \cup {BuiltinComposition[i].percentage : i \in DOMAIN BuiltinComposition}

\* a consumer of a returned record assigns record['composition'][name] = percentage:
\* the dict is the model's table (model.py:120)
ConsumerChangesRecord ==
    /\ ~IsNone(atmosphere_data)
    /\ Cardinality(Changed(composition)) < MaxChanges
    /\ \E i \in DOMAIN composition, percentage \in WrittenPercentages :
          /\ composition[i].percentage # percentage
          /\ composition' = [composition EXCEPT ![i].percentage = percentage]
    /\ UNCHANGED <<estimate, atmosphere_data>>
    /\ UNCHANGED <<trackerVars, loggerVars, schedVars, replayVars>>

\* SolarSystemTracker.__init__ (solar_system_tracker.py:13-36): an empty cache; no
\* DataLogger, no tracking run
InitTracker ==
    /\ tracking_interval \in Intervals
    /\ last_calculation = None
    /\ last_calculation_time = None
    /\ calls = 0
    /\ oracle_runs = 0
    /\ last_call = None
    /\ logger = None
    /\ csv_file = Absent
    /\ json_file = Absent
    /\ export_file = Absent
    /\ session = None
    /\ last_op = None
    /\ atmospheric_model = TRUE
    /\ now = 0
    /\ pc = "idle"
    /\ end_time = None
    /\ current_time = None
    /\ sleep_until = None
    /\ sched = [start_time |-> None, duration |-> None, ticks |-> <<>>,
                deadlines |-> <<>>, delayed |-> FALSE, interrupted_at |-> ""]
    /\ estimate = None
    /\ composition = BuiltinComposition
    /\ atmosphere_data = None
    /\ replay = None

\* before DataLogger(output_file) (logger.py:6): the files an earlier session or anyone
\* else left at the two paths
InitLogger ==
    /\ tracking_interval = 1
    /\ last_calculation = None
    /\ last_calculation_time = None
    /\ calls = 0
    /\ oracle_runs = 0
    /\ last_call = None
    /\ logger = None
    /\ csv_file \in InitialCsvFiles
    /\ json_file \in InitialJsonFiles
    /\ export_file = Absent
    /\ session = None
    /\ last_op = None
    /\ atmospheric_model = TRUE
    /\ now = 0
    /\ pc = "idle"
    /\ end_time = None
    /\ current_time = None
    /\ sleep_until = None
    /\ sched = [start_time |-> None, duration |-> None, ticks |-> <<>>,
                deadlines |-> <<>>, delayed |-> FALSE, interrupted_at |-> ""]
    /\ estimate = None
    /\ composition = BuiltinComposition
    /\ atmosphere_data = None
    /\ replay = None

\* VenusApp.initialize_components (venus_app.py:59-67) has built the tracker, the
\* model if enabled, and a DataLogger on a path without files
InitRealtime ==
    /\ tracking_interval \in Intervals
    /\ last_calculation = None
    /\ last_calculation_time = None
    /\ calls = 0
    /\ oracle_runs = 0
    /\ last_call = None
    /\ logger = Some([data |-> <<>>, existing_data |-> None])
    /\ csv_file = Absent
    /\ json_file = Absent
    /\ export_file = Absent
    /\ session = Some([csv_at_open |-> Absent, json_at_open |-> Absent,
                       io_failed |-> FALSE, exported |-> FALSE, logged |-> <<>>,
                       rewrites |-> <<>>])
    /\ last_op = None
    /\ atmospheric_model \in BOOLEAN
    /\ now = 0
    /\ pc = "idle"
    /\ end_time = None
    /\ current_time = None
    /\ sleep_until = None
    /\ sched = [start_time |-> None, duration |-> None, ticks |-> <<>>,
                deadlines |-> <<>>, delayed |-> FALSE, interrupted_at |-> ""]
    /\ estimate = None
    /\ composition = BuiltinComposition
    /\ atmosphere_data = None
    /\ replay = None

\* AtmosphericModel.__init__ (model.py): no notes generated yet
InitModel ==
    /\ tracking_interval = 1
    /\ last_calculation = None
    /\ last_calculation_time = None
    /\ calls = 0
    /\ oracle_runs = 0
    /\ last_call = None
    /\ logger = None
    /\ csv_file = Absent
    /\ json_file = Absent
    /\ export_file = Absent
    /\ session = None
    /\ last_op = None
    /\ atmospheric_model = TRUE
    /\ now = 0
    /\ pc = "idle"
    /\ end_time = None
    /\ current_time = None
    /\ sleep_until = None
    /\ sched = [start_time |-> None, duration |-> None, ticks |-> <<>>,
                deadlines |-> <<>>, delayed |-> FALSE, interrupted_at |-> ""]
    /\ estimate = None
    /\ composition = BuiltinComposition
    /\ atmosphere_data = None
    /\ replay = None

\* AtmosphericModel.__init__ (model.py:4-33): the built-in table, nothing estimated yet
InitEstimate ==
    /\ tracking_interval = 1
    /\ last_calculation = None
    /\ last_calculation_time = None
    /\ calls = 0
    /\ oracle_runs = 0
    /\ last_call = None
    /\ logger = None
    /\ csv_file = Absent
    /\ json_file = Absent
    /\ export_file = Absent
    /\ session = None
    /\ last_op = None
    /\ atmospheric_model = TRUE
    /\ now = 0
    /\ pc = "idle"
    /\ end_time = None
    /\ current_time = None
    /\ sleep_until = None
    /\ sched = [start_time |-> None, duration |-> None, ticks |-> <<>>,
                deadlines |-> <<>>, delayed |-> FALSE, interrupted_at |-> ""]
    /\ estimate = None
    /\ composition = BuiltinComposition
    /\ atmosphere_data = None
    /\ replay = None

\* VenusApp.initialize_components (venus_app.py:59-67) has built the tracker, the
\* model if enabled, and a DataLogger on a path without files; no tracking runs
InitApp ==
    /\ tracking_interval \in Intervals
    /\ last_calculation = None
    /\ last_calculation_time = None
    /\ calls = 0
    /\ oracle_runs = 0
    /\ last_call = None
    /\ logger = Some([data |-> <<>>, existing_data |-> None])
    /\ csv_file = Absent
    /\ json_file = Absent
    /\ export_file = Absent
    /\ session = Some([csv_at_open |-> Absent, json_at_open |-> Absent,
                       io_failed |-> FALSE, exported |-> FALSE, logged |-> <<>>,
                       rewrites |-> <<>>])
    /\ last_op = None
    /\ atmospheric_model \in BOOLEAN
    /\ now = 0
    /\ pc = "idle"
    /\ end_time = None
    /\ current_time = None
    /\ sleep_until = None
    /\ sched = [start_time |-> None, duration |-> None, ticks |-> <<>>,
                deadlines |-> <<>>, delayed |-> FALSE, interrupted_at |-> ""]
    /\ estimate = None
    /\ composition = BuiltinComposition
    /\ atmosphere_data = None
    /\ replay = None

\* VenusApp.initialize_components (venus_app.py:59-67) has built the tracker, the
\* model if enabled, and a DataLogger on a path without files; nothing is cached
\* and nothing was replayed
InitReplay ==
    /\ tracking_interval \in Intervals
    /\ last_calculation = None
    /\ last_calculation_time = None
    /\ calls = 0
    /\ oracle_runs = 0
    /\ last_call = None
    /\ logger = Some([data |-> <<>>, existing_data |-> None])
    /\ csv_file = Absent
    /\ json_file = Absent
    /\ export_file = Absent
    /\ session = Some([csv_at_open |-> Absent, json_at_open |-> Absent,
                       io_failed |-> FALSE, exported |-> FALSE, logged |-> <<>>,
                       rewrites |-> <<>>])
    /\ last_op = None
    /\ atmospheric_model \in BOOLEAN
    /\ now = 0
    /\ pc = "idle"
    /\ end_time = None
    /\ current_time = None
    /\ sleep_until = None
    /\ sched = [start_time |-> None, duration |-> None, ticks |-> <<>>,
                deadlines |-> <<>>, delayed |-> FALSE, interrupted_at |-> ""]
    /\ estimate = None
    /\ composition = BuiltinComposition
    /\ atmosphere_data = None
    /\ replay = None

NextLogger == Open \/ LogEntry \/ ExportData
NextRealtime ==
    \/ Start \/ LoopTop \/ TickCalculate \/ TickCallback \/ TickWriteCsv
    \/ TickWriteJson \/ TickNext \/ Wake \/ ClockTick \/ KeyboardInterrupt

SpecTracker == InitTracker /\ [][Calculate]_vars
SpecLogger == InitLogger /\ [][NextLogger]_vars
SpecRealtime == InitRealtime /\ [][NextRealtime]_vars
SpecModel == InitModel /\ [][GenerateNotes]_vars
NextApp == Calculate \/ RunSingleCalculation
SpecApp == InitApp /\ [][NextApp]_vars
NextReplay ==
    CalculateBefore \/ TrackOverTimeStart \/ TrackOverTimeStep \/ TrackOverTimeReturn
SpecReplay == InitReplay /\ [][NextReplay]_vars
NextEstimate == CalculateParameters \/ ConsumerChangesRecord
SpecEstimate == InitEstimate /\ [][NextEstimate]_vars

\* the steps track_real_time takes by itself: every action but the user's interrupt
LoopStep ==
    \/ Start \/ LoopTop \/ TickCalculate \/ TickCallback \/ TickWriteCsv
    \/ TickWriteJson \/ TickNext \/ Wake \/ ClockTick
\* the program runs and time advances as long as it can; an interrupt may come or not
SpecRealtimeLive == InitRealtime /\ [][NextRealtime]_vars /\ WF_vars(LoopStep)
\* ================================================================ claims
\* a step that is a calculate_all_positions call, and the instant it is called with
IsCalculateCall == calls' = calls + 1
CallTarget == Val(last_call').target_time

\* the cache slot is one (instant, Snapshot) pair or empty
CacheSingleSlot ==
    /\ Len(last_calculation) <= 1
    /\ Len(last_calculation_time) <= 1
    /\ IsNone(last_calculation) <=> IsNone(last_calculation_time)
    /\ ~IsNone(last_calculation) =>
          Val(last_calculation) = Snapshot(Val(last_calculation_time))

\* C1: a calculate_all_positions(t2) call made while the cache holds the Snapshot of
\* t1, with 0 <= t2 - t1 < tracking_interval, returns the cached Snapshot, leaves the
\* cache as it is and runs no oracle computation; so a first call followed by such a
\* call has run the oracle computation exactly once.
C1_CacheHitNoOracle ==
    [][ ( /\ IsCalculateCall
          /\ ~IsNone(last_calculation_time)
          /\ CallTarget - Val(last_calculation_time) >= 0
          /\ CallTarget - Val(last_calculation_time) < tracking_interval )
        => /\ Val(last_call').returned = last_calculation
           /\ last_calculation' = last_calculation
           /\ last_calculation_time' = last_calculation_time
           /\ oracle_runs' = oracle_runs
           /\ (calls = 1 => oracle_runs' = 1) ]_vars

\* C1 witness: the second of two calls came t2 - t1 in (0, interval) after the first
\* and was served from the cache
C1_Witness ==
    /\ calls = 2
    /\ oracle_runs = 1
    /\ ~IsNone(last_call)
    /\ Val(last_call).hit
    /\ Val(last_call).target_time > Val(Val(last_call).cached_time)
    /\ Val(last_call).returned = last_calculation
    /\ Val(last_calculation).timestamp = Val(Val(last_call).cached_time)

\* C2: a calculate_all_positions(t2) call with t2 - t1 >= tracking_interval (the
\* boundary included) runs the oracle computation and leaves the cache holding exactly
\* (t2, Snapshot of t2), which it returns; the cache is always a single slot.
C2_StaleRecomputesSingleSlot ==
    /\ []CacheSingleSlot
    /\ [][ ( /\ IsCalculateCall
             /\ ~IsNone(last_calculation_time)
             /\ CallTarget - Val(last_calculation_time) >= tracking_interval
             /\ ~Val(last_call').raised )
           => /\ oracle_runs' = oracle_runs + 1
              /\ last_calculation_time' = Some(CallTarget)
              /\ last_calculation' = Some(Snapshot(CallTarget))
              /\ Val(last_call').returned = last_calculation' ]_vars

\* C2 witness: a call exactly one interval after the cached instant recomputed
C2_Witness ==
    /\ ~IsNone(last_call)
    /\ ~IsNone(Val(last_call).cached_time)
    /\ Val(last_call).target_time - Val(Val(last_call).cached_time) = tracking_interval
    /\ ~Val(last_call).hit
    /\ ~Val(last_call).raised
    /\ last_calculation_time = Some(Val(last_call).target_time)
    /\ oracle_runs = 2

\* C15: a calculate_all_positions call in which the oracle fails (an unregistered body
\* name, or any failure part-way through the multi-body computation) raises to its
\* caller, returns nothing, and leaves the cache pair (last_calculation_time,
\* last_calculation) exactly as it was before the call.
C15_OracleFailureLeavesCache ==
    [][ (IsCalculateCall /\ Val(last_call').raised)
        => /\ IsNone(Val(last_call').returned)
           /\ ~Val(last_call').hit
           /\ last_calculation' = last_calculation
           /\ last_calculation_time' = last_calculation_time ]_vars

\* C15 witness: the oracle failed in a call made while the cache held a stale Snapshot,
\* and the cache still holds that Snapshot
C15_Witness ==
    /\ ~IsNone(last_call)
    /\ Val(last_call).raised
    /\ ~IsNone(Val(last_call).cached_time)
    /\ Val(last_call).target_time - Val(Val(last_call).cached_time) >= tracking_interval
    /\ last_calculation_time = Val(last_call).cached_time
    /\ last_calculation = Some(Snapshot(Val(last_calculation_time)))
\* C27: staleness is decided on the signed difference t2 - t1.  A call for an instant
\* t2 earlier than the cached instant t1, by any amount, is a cache hit: it returns the
\* Snapshot of t1, whose timestamp is t1 and not t2, and runs no oracle computation.
\* With a Snapshot cached, a call recomputes exactly when t2 >= t1 + interval.
C27_SignedDifferenceStaleness ==
    [][ (IsCalculateCall /\ ~IsNone(last_calculation_time)) =>
          LET t1 == Val(last_calculation_time)
              t2 == CallTarget
              call == Val(last_call')
          IN /\ (t2 < t1 =>
                   /\ call.hit
                   /\ call.returned = last_calculation
                   /\ Val(call.returned).timestamp = t1
                   /\ Val(call.returned).timestamp # t2
                   /\ oracle_runs' = oracle_runs
                   /\ last_calculation' = last_calculation
                   /\ last_calculation_time' = last_calculation_time)
             /\ (~call.hit <=> t2 >= t1 + tracking_interval)
             /\ (~call.hit <=> oracle_runs' = oracle_runs + 1) ]_vars

\* C27 witness: a call for an instant two intervals or more before the cached instant
\* was served from the cache
C27_Witness ==
    /\ ~IsNone(last_call)
    /\ Val(last_call).hit
    /\ Val(Val(last_call).cached_time) - Val(last_call).target_time
          >= 2 * tracking_interval
    /\ Val(Val(last_call).returned).timestamp = Val(Val(last_call).cached_time)
    /\ oracle_runs = 1

\* the fields of a PositionRecord
PositionRecordFields ==
    {"altitude", "azimuth", "distance.au", "distance.km", "ra", "dec", "elongation"}

\* C25 as stated: every position record of the cached Snapshot, in celestial_bodies
\* and in all_planets, the Sun included, has all the fields of a PositionRecord.
C25_EveryRecordHasAllFields ==
    ~IsNone(last_calculation) =>
        /\ \A body \in DOMAIN Val(last_calculation).celestial_bodies :
              PositionRecordFields \subseteq Val(last_calculation).celestial_bodies[body]
        /\ \A body \in DOMAIN Val(last_calculation).all_planets :
              PositionRecordFields \subseteq Val(last_calculation).all_planets[body]

\* C26 as stated: a cache hit returns the Snapshot as it was computed at the cached
\* instant; nothing has been added to the cached object or changed in it.
C26_CachedSnapshotNeverModified ==
    [][ (IsCalculateCall /\ Val(last_call').hit)
        => Val(last_call').returned = Some(Snapshot(Val(last_calculation_time))) ]_vars

\* the instants of a sequence of rows or records
Timestamps(rows) == [i \in DOMAIN rows |-> rows[i].timestamp]

\* the ticks of the run (the instants captured at the top of the loop that passed the
\* end-time test) and the deadlines computed after them
Ticks == sched.ticks
Deadlines == sched.deadlines

C10_TicksWithinDuration ==
    (~sched.delayed /\ ~IsNone(sched.duration)) =>
        /\ \A k \in DOMAIN Ticks :
              /\ Ticks[k] = Val(sched.start_time) + (k - 1) * tracking_interval
              /\ Ticks[k] <= Val(sched.start_time) + Val(sched.duration)
        /\ pc = "completed" =>
              Len(Ticks) = (Val(sched.duration) \div tracking_interval) + 1
\* the positions at which track_real_time has returned or raised
TerminalPcs == {"completed", "interrupted", "failed"}

\* C11 as stated: the scheduler is only ever Idle, Running, Completed or Interrupted.
C11_OnlyCompletedOrInterrupted ==
    pc \in {"idle", "completed", "interrupted"} \cup RunningPcs

\* C11 amended: the scheduler goes Idle -> Running -> {Completed, Interrupted, Failed}.
\* Completed is entered only from the top of the loop, with an end-time bound set and
\* the captured current time past it; Interrupted only from Running; Failed only from
\* Running, when calculate or the tabular write of the append raised; all three are
\* terminal: no tick, calculate or append follows.
C11_SchedulerStates ==
    /\ [](pc \in {"idle"} \cup RunningPcs \cup TerminalPcs)
    /\ [][ pc' # pc =>
             /\ pc \notin TerminalPcs
             /\ (pc = "idle" => pc' = "loop")
             /\ pc' # "idle"
             /\ (pc' = "completed" =>
                    /\ pc = "loop"
                    /\ ~IsNone(end_time)
                    /\ Val(current_time') > Val(end_time)
                    /\ Ticks' = Ticks)
             /\ (pc' = "interrupted" => pc \in RunningPcs)
             /\ (pc' = "failed" =>
                    \/ pc = "calculate" /\ Val(last_call').raised
                    \/ pc = "write_csv" /\ Val(last_op').raised) ]_vars
    /\ [][ pc \notin TerminalPcs ]_vars

\* C11 witness: a bounded run that made two ticks or more has completed
C11_Witness ==
    /\ pc = "completed"
    /\ Len(Ticks) >= 2
    /\ ~IsNone(end_time)
    /\ Val(current_time) > Val(end_time)

C13_OneEntryPerTick ==
    (pc \in {"next", "sleep"} /\ ~IsNone(logger)) =>
        /\ Len(Val(logger).data) = Len(Ticks)
        /\ Timestamps(Val(logger).data) = Ticks
\* the instants of the entries in the two sinks
TabularInstants == Timestamps(csv_file.rows)
StructuredInstants == Timestamps(json_file.rows)

IsLoggerOp == OpCount' = OpCount + 1
Op == Val(last_op')
IsExport(format_type) == IsLoggerOp /\ Op.op = "export_data" /\ Op.format = format_type

\* the file an export that returned a path has written
ExportedFile ==
    IF Val(Op.returned) = "output_file" THEN csv_file'
    ELSE IF Val(Op.returned) = "json_output_file" THEN json_file'
    ELSE export_file'

\* this DataLogger was opened where neither file existed, and all it has done since
\* is log_entry calls in which no write failed
FreshAndOnlyLogged ==
    /\ ~IsNone(logger)
    /\ Val(session).csv_at_open.kind = "absent"
    /\ Val(session).json_at_open.kind = "absent"
    /\ ~Val(session).io_failed
    /\ ~Val(session).exported

\* C5: a DataLogger opened where neither file exists, after N >= 1 log_entry calls
\* without a write failure, has N rows in the tabular file and N records in the
\* entries list of the structured file, both in call order, and an export (csv or
\* json) made then writes N entries in that order.
C5_NAppendsNEntries ==
    /\ [](FreshAndOnlyLogged /\ Val(session).logged # <<>> =>
            /\ csv_file.kind = "csv"
            /\ Timestamps(csv_file.rows) = Val(session).logged
            /\ json_file.kind = "entries"
            /\ Timestamps(json_file.rows) = Val(session).logged
            /\ \A i \in DOMAIN json_file.rows :
                  DOMAIN json_file.rows[i] = {"timestamp", "position", "atmosphere"})
    /\ [][ ( /\ FreshAndOnlyLogged
             /\ Val(session).logged # <<>>
             /\ (IsExport("csv") \/ IsExport("json")) )
           => /\ ~IsNone(Op.returned)
              /\ Timestamps(ExportedFile.rows) = Val(session).logged ]_vars

\* C5 witness: two entries logged on a fresh path, then exported
C5_Witness ==
    /\ ~IsNone(last_op)
    /\ Val(last_op).op = "export_data"
    /\ Val(last_op).returned = Some("custom")
    /\ Val(session).csv_at_open.kind = "absent"
    /\ Val(session).json_at_open.kind = "absent"
    /\ ~Val(session).io_failed
    /\ Len(Val(session).logged) = 2
    /\ Len(csv_file.rows) = 2
    /\ Len(json_file.rows) = 2
    /\ Len(export_file.rows) = 2

\* the rows of the tabular file the DataLogger was opened on
BaselineFileRows == Val(session).csv_at_open.rows
OpenedOnTabularFile == Val(session).csv_at_open.kind \in {"csv", "empty"}

\* C6 as stated: opened on a tabular file of B >= 0 rows, with M >= 0 entries
\* appended, a tabular export contains B + M rows, the baseline rows first.
C6_ExportBaselinePlusBufferAnyM ==
    [][ (IsExport("csv") /\ OpenedOnTabularFile)
        => /\ ~IsNone(Op.returned)
           /\ ExportedFile.kind = "csv"
           /\ Timestamps(ExportedFile.rows) =
                 Timestamps(BaselineFileRows) \o Val(session).logged ]_vars

\* C6 amended: opened on a tabular file of B >= 0 rows, with M >= 1 entries appended,
\* a tabular export contains B + M rows, the baseline rows first and the appended
\* ones after them in append order; with M = 0 the export writes nothing and returns
\* no path.
C6_ExportBaselinePlusBuffer ==
    [][ (IsExport("csv") /\ OpenedOnTabularFile)
        => IF Val(session).logged # <<>>
           THEN /\ ~IsNone(Op.returned)
                /\ ExportedFile.kind = "csv"
                /\ Timestamps(ExportedFile.rows) =
                      Timestamps(BaselineFileRows) \o Val(session).logged
           ELSE /\ IsNone(Op.returned)
                /\ UNCHANGED <<csv_file, json_file, export_file>> ]_vars

\* C6 witness: a file with a baseline row, two entries appended, exported as csv
C6_Witness ==
    /\ ~IsNone(last_op)
    /\ Val(last_op).op = "export_data"
    /\ Val(last_op).format = "csv"
    /\ Val(last_op).returned = Some("custom")
    /\ Len(Val(session).csv_at_open.rows) = 1
    /\ Len(Val(session).logged) = 2
    /\ Len(export_file.rows) = 3
    /\ export_file.rows[1].timestamp = Val(session).csv_at_open.rows[1].timestamp

\* the column names of the file the DataLogger was opened on, if it could be parsed
BaselineColumns ==
    IF Val(session).csv_at_open.kind = "csv" THEN Val(session).csv_at_open.header ELSE {}
\* the keys of the entries in the buffer
BufferKeys == UNION {Val(logger).data[i].keys : i \in DOMAIN Val(logger).data}
\* a step that rewrites the tabular file of the session
IsTabularRewrite ==
    /\ ~IsNone(session)
    /\ ~IsNone(session')
    /\ Len(Val(session').rewrites) = Len(Val(session).rewrites) + 1

\* C7: every rewrite of the tabular file has as columns the union of the baseline's
\* columns and the keys of all entries buffered so far; from one rewrite of a session
\* to the next the column set only grows; an entry without a key has an empty (null)
\* cell in that column, and the rewrite is made with a row for every entry whatever
\* keys the entries have.
C7_ColumnsAreUnionOfKeys ==
    /\ [][ IsTabularRewrite
           => /\ csv_file'.kind = "csv"
              /\ csv_file'.header = BaselineColumns' \cup BufferKeys'
              /\ Len(csv_file'.rows) =
                    (IF IsNone(Val(logger').existing_data) THEN 0
                     ELSE Len(Val(Val(logger').existing_data).rows))
                    + Len(Val(logger').data)
              /\ \A j \in DOMAIN Val(logger').data :
                    LET row == csv_file'.rows[Len(csv_file'.rows)
                                              - Len(Val(logger').data) + j]
                    IN /\ row.timestamp = Val(logger').data[j].timestamp
                       /\ row.cells = Val(logger').data[j].nonnull
                       /\ row.cells \cap (csv_file'.header \ Val(logger').data[j].keys)
                             = {} ]_vars
    /\ [](~IsNone(session) =>
            \A i, j \in DOMAIN Val(session).rewrites :
                i <= j => Val(session).rewrites[i] \subseteq Val(session).rewrites[j])

\* C7 witness: an entry with atmosphere data was logged after one without; the file
\* has the atmosphere columns and the first row has nulls in them
C7_Witness ==
    /\ ~IsNone(logger)
    /\ Len(Val(logger).data) = 2
    /\ "phase" \notin Val(logger).data[1].keys
    /\ "phase" \in Val(logger).data[2].keys
    /\ Len(Val(session).rewrites) = 2
    /\ Val(session).rewrites[1] # Val(session).rewrites[2]
    /\ csv_file.kind = "csv"
    /\ "phase" \in csv_file.header
    /\ "phase" \notin csv_file.rows[Len(csv_file.rows) - 1].cells
    /\ "phase" \in csv_file.rows[Len(csv_file.rows)].cells

\* C8 as stated: whatever open, append and export operations were made, the structured
\* file (once it exists) is a document {"entries": [...]} with one nested record per
\* append made against it.  Stated for files that started absent or as such a document,
\* in sessions without a write failure.
C8_StructuredSinkIsEntriesDocument ==
    ( /\ ~IsNone(logger)
      /\ Val(session).json_at_open.kind \in {"absent", "entries"}
      /\ ~Val(session).io_failed
      /\ json_file.kind # "absent" )
    => /\ json_file.kind = "entries"
       /\ Timestamps(json_file.rows) =
             Timestamps(Val(session).json_at_open.rows) \o Val(session).logged

\* C9 as stated: an export with a supported format leaves the live tabular file and
\* the live structured file as they were.  Stated for sessions without a write failure.
C9_ExportLeavesLiveFiles ==
    [][ ( /\ (IsExport("csv") \/ IsExport("json"))
          /\ ~Val(session).io_failed )
        => /\ csv_file' = csv_file
           /\ json_file' = json_file ]_vars

\* a log_entry call, and one in which a write failed for the first time in the session
IsLogEntry == IsLoggerOp /\ Op.op = "log_entry"
WriteFailedNow == ~Val(session).io_failed /\ Val(session').io_failed

\* C16 as stated: a log_entry call in which the write of either file fails raises to
\* its caller, and the entry is in the buffer afterwards.
C16_WriteFailureSurfaced ==
    [][ (IsLogEntry /\ WriteFailedNow)
        => /\ Op.raised
           /\ Len(Val(logger').data) = Len(Val(logger).data) + 1 ]_vars

\* C17: DataLogger(output_file) on a tabular file that exists and is not empty parses
\* it once, at construction; the baseline it holds is the content the file had then
\* and no log_entry or export_data changes it.  When the parse fails the constructor
\* does not raise, the baseline is empty (None), and a log_entry whose write succeeds
\* leaves the tabular file with exactly the entries logged in this session.
C17_BaselineParsedOnceImmutable ==
    /\ [](~IsNone(logger) =>
            LET at == Val(session).csv_at_open
                existing_data == Val(logger).existing_data
            IN IF at.kind = "csv"
               THEN /\ ~IsNone(existing_data)
                    /\ Val(existing_data).columns = at.header
                    /\ Timestamps(Val(existing_data).rows) = Timestamps(at.rows)
                    /\ \A i \in DOMAIN at.rows :
                          Val(existing_data).rows[i].filled = at.rows[i].cells
               ELSE IsNone(existing_data))
    /\ [][ (IsLoggerOp /\ Op.op = "open") => ~Op.raised ]_vars
    /\ [][ (IsLoggerOp /\ Op.op # "open")
           => Val(logger').existing_data = Val(logger).existing_data ]_vars
    /\ [][ (IsLogEntry /\ ~Op.raised /\ Val(session).csv_at_open.kind = "corrupt")
           => /\ csv_file'.kind = "csv"
              /\ Timestamps(csv_file'.rows) = Val(session').logged ]_vars

\* C17 witness: a DataLogger opened on a tabular file that could not be parsed has
\* logged two entries, and the file holds those two
C17_Witness ==
    /\ ~IsNone(logger)
    /\ Val(session).csv_at_open.kind = "corrupt"
    /\ IsNone(Val(logger).existing_data)
    /\ Len(Val(session).logged) = 2
    /\ csv_file.kind = "csv"
    /\ Timestamps(csv_file.rows) = Val(session).logged

\* C18 as stated: a log_entry call without a write failure that finds the structured
\* file unreadable as an entries document (corrupt or empty text, or valid JSON of
\* another shape) leaves it the entries document holding the new record alone.
C18_UnreadableStructuredRestarted ==
    [][ ( /\ IsLogEntry
          /\ ~Val(session').io_failed
          /\ json_file.kind \in {"corrupt", "other", "records"} )
        => /\ ~Op.raised
           /\ json_file'.kind = "entries"
           /\ Timestamps(json_file'.rows) = <<Val(session').logged[Len(Val(session').logged)]>>
      ]_vars

\* C19: export_data with a format other than csv and json returns None, raises
\* nothing, and leaves the tabular file, the structured file, the file at an explicit
\* path, the buffer and the baseline as they were, whatever the baseline and buffer.
C19_UnsupportedFormatNoEffect ==
    [][ (IsLoggerOp /\ Op.op = "export_data" /\ Op.format \notin {"csv", "json"})
        => /\ IsNone(Op.returned)
           /\ ~Op.raised
           /\ UNCHANGED <<csv_file, json_file, export_file, logger>> ]_vars

\* C19 witness: an xml export was asked of a DataLogger with a baseline and a buffer
\* that are not empty, with and without an explicit path
C19_Witness ==
    /\ ~IsNone(last_op)
    /\ Val(last_op).op = "export_data"
    /\ Val(last_op).format = "xml"
    /\ IsNone(Val(last_op).returned)
    /\ ~IsNone(logger)
    /\ Val(logger).data # <<>>
    /\ ~IsNone(Val(logger).existing_data)
    /\ Val(Val(logger).existing_data).rows # <<>>

\* a DataLogger opened where neither file existed that has made no export
FreshNoExport ==
    /\ ~IsNone(logger)
    /\ Val(session).csv_at_open.kind = "absent"
    /\ Val(session).json_at_open.kind = "absent"
    /\ ~Val(session).exported

\* C29: log_entry puts the entry in the buffer, then rewrites the tabular file, then
\* writes the structured file.  When the tabular rewrite fails the call raises, the
\* entry stays in the buffer and the structured file is not touched.  The next
\* log_entry that succeeds writes the whole buffer, the earlier entry and the new
\* one, to the tabular file and adds the new record alone to the structured file.
\* In a session opened where neither file existed and without export, the tabular
\* file then has more entries than the structured file, and the gap never closes.
C29_FailedTabularWriteDesynchronises ==
    /\ [][ (IsLogEntry /\ Op.raised)
           => /\ Len(Val(logger').data) = Len(Val(logger).data) + 1
              /\ Timestamps(Val(logger').data) = Val(session').logged
              /\ json_file' = json_file ]_vars
    /\ [][ (IsLogEntry /\ ~Op.raised)
           => /\ csv_file'.kind = "csv"
              /\ Timestamps(csv_file'.rows) =
                    (IF IsNone(Val(logger).existing_data) THEN <<>>
                     ELSE Timestamps(Val(Val(logger).existing_data).rows))
                    \o Val(session').logged
              /\ Len(json_file'.rows) <= Len(json_file.rows) + 1 ]_vars
    /\ [][ ( /\ IsLogEntry /\ ~Op.raised
             /\ FreshNoExport
             /\ ~IsNone(last_op) /\ Val(last_op).op = "log_entry" /\ Val(last_op).raised )
           => /\ Len(csv_file'.rows) > Len(json_file'.rows)
              /\ Len(csv_file'.rows) >= Len(csv_file.rows) + 2 ]_vars
    /\ [][ (IsLogEntry /\ FreshNoExport)
           => Len(csv_file'.rows) - Len(json_file'.rows)
                 >= Len(csv_file.rows) - Len(json_file.rows) ]_vars

\* C29 witness: the first log_entry of a session failed on the tabular rewrite, the
\* second succeeded: two rows in the tabular file, the second record alone in the
\* structured file
C29_Witness ==
    /\ FreshNoExport
    /\ Val(last_op).op = "log_entry"
    /\ ~Val(last_op).raised
    /\ Len(Val(session).logged) = 2
    /\ Timestamps(csv_file.rows) = Val(session).logged
    /\ json_file.kind = "entries"
    /\ Timestamps(json_file.rows) = <<Val(session).logged[2]>>

\* ---------------------------------------------------------------- AtmosphericModel claims
\* the threshold rules that fire for the inputs of the last _generate_notes call
ElongationFires == Val(estimate).elongation < 10 \/ Val(estimate).elongation > 160
PhaseFires == Val(estimate).phase > 80 \/ Val(estimate).phase < 20
TemperatureFires == Val(estimate).temperature > 220 \/ Val(estimate).temperature < 160
Fired(rule) == IF rule THEN 1 ELSE 0
ElongationSentences == {"Venus near superior conjunction (behind the Sun)",
                        "Venus near inferior conjunction (between Earth and Sun)"}
PhaseSentences == {"Full Venus phase - mostly day side visible",
                   "Crescent phase - mostly night side visible"}
TemperatureSentences == {"Upper cloud temperature higher than average",
                         "Upper cloud temperature lower than average"}

\* C20 as stated: the notes are the sentences of the rules that fire, one each, and
\* the single default sentence when none fires.
C20_DefaultWhenNoRuleFires ==
    ~IsNone(estimate) =>
        LET notes == Val(estimate).notes
            fired == Fired(ElongationFires) + Fired(PhaseFires) + Fired(TemperatureFires)
        IN IF fired = 0 THEN notes = <<"Standard conditions">>
           ELSE Len(notes) = fired

\* C20 amended: the notes are the sentences of the threshold rules that fire, at most
\* one per rule, in the order elongation, phase, cloud-top temperature, followed on
\* every call by the surface temperature and the surface pressure sentence; any subset
\* of the rules can fire; the notes are never empty, so the default sentence is never
\* produced: when no rule fires the notes are the two surface sentences.
C20_NotesRulesThenSurface ==
    ~IsNone(estimate) =>
        LET notes == Val(estimate).notes
            e == Fired(ElongationFires)
            p == Fired(PhaseFires)
            t == Fired(TemperatureFires)
        IN /\ Len(notes) = e + p + t + 2
           /\ ElongationFires => notes[1] \in ElongationSentences
           /\ PhaseFires => notes[e + 1] \in PhaseSentences
           /\ TemperatureFires => notes[e + p + 1] \in TemperatureSentences
           /\ notes[e + p + t + 1] = "Surface temperature"
           /\ notes[e + p + t + 2] = "Surface pressure"
           /\ notes # <<"Standard conditions">>

\* C20 witness: elongation 90 degrees, phase 0.5, temperature 190 K: no rule fires and
\* the notes are the two surface sentences
C20_Witness ==
    /\ ~IsNone(estimate)
    /\ Val(estimate).elongation = 90
    /\ Val(estimate).phase = 50
    /\ Val(estimate).temperature = 190
    /\ Val(estimate).notes = <<"Surface temperature", "Surface pressure">>
\* C30: a track_over_time(start, duration_minutes, logger, model) call that returns
\* has logged exactly floor(D / I) + 1 entries, D = 60 * duration_minutes and I the
\* interval, with the increasing timestamps start + k * I, and each of its steps was
\* a fresh computation of the oracle, never a cache hit.
C30_ReplayEveryStepFresh ==
    (~IsNone(replay) /\ Val(replay).state = "returned") =>
        LET steps == Val(replay).steps
            data == Val(logger).data
        IN /\ Len(steps) = (Val(replay).duration \div tracking_interval) + 1
           /\ Len(data) = Len(steps)
           /\ \A k \in DOMAIN steps :
                 /\ steps[k].time = Val(replay).start_time + (k - 1) * tracking_interval
                 /\ data[k].timestamp = steps[k].time
                 /\ ~steps[k].hit
\* a step that is a calculate_parameters call returning a record
IsEstimateCall == atmosphere_data' # atmosphere_data
TableIndex(name) == CHOOSE i \in DOMAIN composition : composition[i].name = name
\* entry i comes before entry j: a higher percentage, or the same and earlier in the table
RanksBefore(i, j) ==
    \/ composition[i].percentage > composition[j].percentage
    \/ /\ composition[i].percentage = composition[j].percentage
       /\ i < j

\* C21: on every calculate_parameters call the main compounds are the three entries
\* of the composition table with the highest percentages, in descending order of
\* percentage, equal percentages in table order; with the built-in table they are
\* CO2, N2, SO2, whatever the elongation and whatever calls came before.
C21_MainCompoundsTopThree ==
    [][ IsEstimateCall =>
          LET compounds == Val(atmosphere_data').main_compounds
              index == [k \in 1..3 |-> TableIndex(compounds[k])]
          IN /\ Len(compounds) = 3
             /\ \A k \in 1..3 : \E i \in DOMAIN composition :
                    composition[i].name = compounds[k]
             /\ RanksBefore(index[1], index[2])
             /\ RanksBefore(index[2], index[3])
             /\ \A j \in DOMAIN composition \ {index[1], index[2], index[3]} :
                    RanksBefore(index[3], j)
             /\ composition = BuiltinComposition =>
                    compounds = <<"CO2", "N2", "SO2">> ]_vars

\* a call made on a table where Ne has the percentage of CO2: CO2 comes first
C21_Witness ==
    /\ ~IsNone(atmosphere_data)
    /\ composition[8].percentage = composition[1].percentage
    /\ Val(atmosphere_data).main_compounds = <<"CO2", "Ne", "N2">>

\* C22: the phase of every returned record is (1 + cos(e)) / 2 for its elongation e
\* in [0, 180], lies in [0, 1], is 1 at e = 0 and 0 at e = 180, and no larger
\* elongation has a larger phase.
C22_PhaseFormulaRangeMonotone ==
    ~IsNone(atmosphere_data) =>
        LET e == Val(atmosphere_data).elongation
            p == Val(atmosphere_data).phase
        IN /\ 2 * p * CosineUnit = PhaseOne * (CosineUnit + Cosine(e))
           /\ 0 <= p /\ p <= PhaseOne
           /\ e = 0 => p = PhaseOne
           /\ e = 180 => p = 0
           /\ \A e2 \in EstimateElongations : e2 >= e => phase(e2) <= p
           /\ \A e2 \in EstimateElongations : e2 <= e => phase(e2) >= p

\* elongation 60 degrees: three quarters of the disc
C22_Witness ==
    /\ ~IsNone(atmosphere_data)
    /\ Val(atmosphere_data).elongation = 60
    /\ 4 * Val(atmosphere_data).phase = 3 * PhaseOne

\* C23: the cloud-top temperature of every returned record is night + phase * (day -
\* night) with night 150 K and day 230 K: 230 K at elongation 0, 150 K at elongation
\* 180, and within [150, 230] K.
C23_CloudTopInterpolation ==
    ~IsNone(atmosphere_data) =>
        LET e == Val(atmosphere_data).elongation
            p == Val(atmosphere_data).phase
            kelvin == Val(atmosphere_data).cloud_top_temperature
        IN /\ kelvin = 150 * PhaseOne + p * (230 - 150)
           /\ e = 0 => kelvin = 230 * PhaseOne
           /\ e = 180 => kelvin = 150 * PhaseOne
           /\ 150 * PhaseOne <= kelvin /\ kelvin <= 230 * PhaseOne

\* elongation 90 degrees: half phase, 190 K
C23_Witness ==
    /\ ~IsNone(atmosphere_data)
    /\ Val(atmosphere_data).elongation = 90
    /\ Val(atmosphere_data).cloud_top_temperature = 190 * PhaseOne

\* C24: a calculate_parameters call leaves the composition table as it was, and a
\* call with the elongation of the record returned before returns an equal record,
\* whatever the consumer of that record did with it in between.
C24_EstimateDeterministic ==
    [][ IsEstimateCall =>
          /\ composition' = composition
          /\ (/\ ~IsNone(atmosphere_data)
              /\ Val(atmosphere_data').elongation = Val(atmosphere_data).elongation)
             => atmosphere_data' = atmosphere_data ]_vars
====
